---------------------------- MODULE Spec2Model ----------------------------
(***************************************************************************)
(* Land classification service: the classifier (models/predictor.py) and   *)
(* the Flask handlers (app.py).                                            *)
(*                                                                         *)
(* Spec           : the application after startup, handling one request at *)
(*                  a time on /predict, /compare, /heatmap and             *)
(*                  /analyze-series.                                       *)
(* SpecClassifier : LandClassifier after construction, serving predict,    *)
(*                  compare_all and get_available_models.                  *)
(* SpecPre        : preprocess_image on the arrays of opened images.       *)
(* SpecConc       : the application after startup, its threaded server     *)
(*                  handling two requests at a time on /predict, /compare  *)
(*                  and /heatmap.                                          *)
(***************************************************************************)
EXTENDS Integers, Sequences, FiniteSets, TLC

VARIABLES
    modelFile,   \* environment: state of each variant's .h5 file at startup
    models,      \* LandClassifier.models: loaded keys, in dict insertion order
    out,         \* the last classifier call: its arguments and its return value
    listing,     \* the last return value of get_available_models (<<>> before)
    rejected,    \* history: some predict was rejected with "not loaded"
    fs,          \* the files in the upload folder, by path
    rq,          \* the request being handled: its inputs, position and locals
    resp,        \* the response just returned, until the client has read it
    disk,        \* SpecConc: the files in the upload folder, with their content
    conc         \* SpecConc: the request each server thread is handling

vars == <<modelFile, models, out, listing, rejected, fs, rq, resp, disk, conc>>

-----------------------------------------------------------------------------
(* Registry and class labels *)

CLASS_NAMES ==
    << "AnnualCrop", "Forest", "HerbaceousVegetation", "Highway", "Industrial",
       "Pasture", "PermanentCrop", "Residential", "River", "SeaLake" >>

\* The dict MODEL_CONFIG, as the sequence of its items in declaration order.
MODEL_CONFIG ==
    << [key |-> "rgb", path |-> "model_rgb_v0.h5", name |-> "RGB Model",
        input_shape |-> <<64, 64, 3>>, channels |-> 3],
       [key |-> "rgb_nir", path |-> "model_RGB_NIR_v0.h5", name |-> "RGB + NIR Model",
        input_shape |-> <<64, 64, 4>>, channels |-> 4],
       [key |-> "ndvi", path |-> "model_NDVI_v2.h5", name |-> "NDVI Model",
        input_shape |-> <<64, 64, 1>>, channels |-> 1] >>

Keys == { MODEL_CONFIG[p].key : p \in DOMAIN MODEL_CONFIG }

Config(k) == MODEL_CONFIG[CHOOSE p \in DOMAIN MODEL_CONFIG : MODEL_CONFIG[p].key = k]

InSeq(x, s) == \E p \in DOMAIN s : s[p] = x

-----------------------------------------------------------------------------
(* Bounds of the classifier's inputs *)

\* how many of CLASS_NAMES the sample networks ever output
NumLabels == 3

\* how many distinct confidence values the sample networks output
NumConfs == 2

Labels == { CLASS_NAMES[c] : c \in 1..NumLabels }

\* confidences, in hundredths of a percent (round(confidence, 2))
Confs == { 10000 - 2500 * c : c \in 1..NumConfs }

\* os.path.exists / keras load_model outcome of one variant's file
FileStates == {"ok", "absent", "corrupt"}

\* What lines 131-152 do for one variant on one image: raise, or a top class.
TryOutcomes ==
    { [raised |-> TRUE, error |-> "cannot identify image file"] }
    \cup { [raised |-> FALSE, predicted_class |-> l, confidence |-> c] :
             l \in Labels, c \in Confs }

\* An uploaded image, as what preprocessing plus each network makes of it.
Images == [Keys -> TryOutcomes]

-----------------------------------------------------------------------------
(* LandClassifier *)

RECURSIVE LoadFrom(_, _, _)
LoadFrom(p, mf, acc) ==
    IF p > Len(MODEL_CONFIG) THEN acc
    ELSE LET k == MODEL_CONFIG[p].key IN
         IF mf[k] # "absent"                       \* os.path.exists(model_path)
         THEN IF mf[k] = "ok"                      \* load_model returned
              THEN LoadFrom(p + 1, mf, Append(acc, k))
              ELSE LoadFrom(p + 1, mf, acc)        \* except: print only
         ELSE LoadFrom(p + 1, mf, acc)

load_models(mf) == LoadFrom(1, mf, <<>>)

NotLoadedError(model_key) == "Model \"" \o model_key \o "\" not loaded"

predict(ms, img, model_key) ==
    IF ~InSeq(model_key, ms)
    THEN [success |-> FALSE, error |-> NotLoadedError(model_key)]
    ELSE LET o == img[model_key] IN
         IF o.raised
         THEN [success |-> FALSE, error |-> o.error]
         ELSE [success |-> TRUE, predicted_class |-> o.predicted_class,
               confidence |-> o.confidence, model_used |-> Config(model_key).name]

\* mutant: loaded is reported from the registry, not from self.models
get_available_models_registry(ms) ==
    [p \in DOMAIN MODEL_CONFIG |->
        [key |-> MODEL_CONFIG[p].key, name |-> MODEL_CONFIG[p].name,
         loaded |-> MODEL_CONFIG[p].key \in Keys]]

get_available_models(ms) ==
    [p \in DOMAIN MODEL_CONFIG |->
        [key |-> MODEL_CONFIG[p].key, name |-> MODEL_CONFIG[p].name,
         loaded |-> InSeq(MODEL_CONFIG[p].key, ms)]]

\* Python's None
None == "None"

\* line 200: the predicted classes of the entries that have one
Predictions(results) ==
    LET ok == SelectSeq(results, LAMBDA r : "predicted_class" \in DOMAIN r)
    IN  [p \in DOMAIN ok |-> ok[p].predicted_class]

\* list.count
Count(xs, x) == Cardinality({ p \in DOMAIN xs : xs[p] = x })

\* collections.Counter(xs): its items, in first-occurrence order
RECURSIVE CounterFrom(_, _, _)
CounterFrom(xs, p, acc) ==
    IF p > Len(xs) THEN acc
    ELSE IF \E q \in DOMAIN acc : acc[q].elem = xs[p]
         THEN CounterFrom(xs, p + 1,
                [q \in DOMAIN acc |->
                    IF acc[q].elem = xs[p]
                    THEN [elem |-> acc[q].elem, n |-> acc[q].n + 1]
                    ELSE acc[q]])
         ELSE CounterFrom(xs, p + 1, Append(acc, [elem |-> xs[p], n |-> 1]))

Counter(xs) == CounterFrom(xs, 1, <<>>)

\* mutant: the scan keeps the last of the items with the largest count
RECURSIVE MaxLastFrom(_, _, _)
MaxLastFrom(items, p, best) ==
    IF p > Len(items) THEN best
    ELSE MaxLastFrom(items, p + 1, IF items[p].n >= best.n THEN items[p] ELSE best)

most_common_last(items) == MaxLastFrom(items, 2, items[1]).elem

\* most_common(1)[0][0]: heapq.nlargest(1, ...) is max(), which keeps the first
\* of the items with the largest count
RECURSIVE MaxFrom(_, _, _)
MaxFrom(items, p, best) ==
    IF p > Len(items) THEN best
    ELSE MaxFrom(items, p + 1, IF items[p].n > best.n THEN items[p] ELSE best)

most_common(items) == MaxFrom(items, 2, items[1]).elem

\* mutant: the percentage is truncated to one decimal instead of rounded
Round1_truncated(num, den) == (1000 * num) \div den

\* round(num / den * 100, 1), in tenths of a percent (ties to even)
Round1(num, den) ==
    LET q == (1000 * num) \div den
        r == (1000 * num) % den
    IN  IF 2 * r > den THEN q + 1
        ELSE IF 2 * r < den THEN q
        ELSE IF q % 2 = 0 THEN q ELSE q + 1

\* lines 204 and 213
Agreement(predictions, consensus) ==
    Round1(Count(predictions, consensus), Len(predictions))

\* mutant: every registry variant is asked, loaded or not
CompareKeys_registry(ms) == [p \in DOMAIN MODEL_CONFIG |-> MODEL_CONFIG[p].key]

\* line 184: self.models.keys()
CompareKeys(ms) == ms

compare_all(ms, img) ==
    LET ks == CompareKeys(ms)
        results == [p \in DOMAIN ks |->
                      LET result == predict(ms, img, ks[p]) IN
                      IF result.success
                      THEN [key |-> ks[p], model_name |-> Config(ks[p]).name,
                            predicted_class |-> result.predicted_class,
                            confidence |-> result.confidence]
                      ELSE [key |-> ks[p], model_name |-> Config(ks[p]).name,
                            error |-> result.error]]
        predictions == Predictions(results)
    IN  IF predictions # <<>>
        THEN LET consensus == most_common(Counter(predictions)) IN
             [success |-> TRUE, models |-> results, consensus |-> consensus,
              agreement |-> Agreement(predictions, consensus)]
        ELSE [success |-> TRUE, models |-> results, consensus |-> None,
              agreement |-> 0]

-----------------------------------------------------------------------------
(* preprocess_image *)

\* samples of the resized image kept by the model (of its 64 x 64)
NumPixels == 2

\* the most channels an opened image has (PIL: L 1, LA 2, RGB 3, RGBA/CMYK 4)
MaxChannels == 4

\* Arithmetic is exact: a float sample x is held as x * Unit, so that the mean
\* of up to 6 channels is an integer.
Unit == 3 * 4 * 5

\* 8-bit samples, and the samples of a one-band raster (modes I, I;16, F)
ByteSamples == {0, 1, 255}
BandSamples == {0, 1, 255, 65535}

Pixels == 1..NumPixels

\* np.array(img, dtype=np.float32) of line 83: a 2-D array for a one-band
\* image, else height x width x channels
Arrays ==
    { [shape |-> <<64, 64>>, px |-> d] :
        d \in [Pixels -> { <<v * Unit>> : v \in BandSamples }] }
    \cup UNION { { [shape |-> <<64, 64, c>>, px |-> d] :
                     d \in [Pixels -> [1..c -> { v * Unit : v \in ByteSamples }]] } :
                 c \in 1..MaxChannels }

RECURSIVE SeqSum(_)
SeqSum(xs) == IF xs = <<>> THEN 0 ELSE Head(xs) + SeqSum(Tail(xs))

\* np.mean(a, axis=2, keepdims=True)
MeanChannels(a) ==
    [shape |-> <<a.shape[1], a.shape[2], 1>>,
     px |-> [i \in Pixels |-> << SeqSum(a.px[i]) \div Len(a.px[i]) >>]]

\* np.stack([a] * n, axis=-1) of a 2-D array
Stack(a, n) ==
    [shape |-> <<a.shape[1], a.shape[2], n>>,
     px |-> [i \in Pixels |-> [c \in 1..n |-> a.px[i][1]]]]

\* np.concatenate([a, b], axis=-1)
Concatenate(a, b) ==
    [shape |-> <<a.shape[1], a.shape[2], a.shape[3] + b.shape[3]>>,
     px |-> [i \in Pixels |-> a.px[i] \o b.px[i]]]

\* np.concatenate([a] * n, axis=-1) of an array with one channel
Repeat(a, n) ==
    [shape |-> <<a.shape[1], a.shape[2], n * a.shape[3]>>,
     px |-> [i \in Pixels |-> [c \in 1..(n * a.shape[3]) |-> a.px[i][1]]]]

\* a[:, :, :n]
SliceChannels(a, n) ==
    LET m == IF a.shape[3] < n THEN a.shape[3] ELSE n IN
    [shape |-> <<a.shape[1], a.shape[2], m>>,
     px |-> [i \in Pixels |-> SubSeq(a.px[i], 1, m)]]

\* lines 86-110
ConvertChannels(a, model_key) ==
    IF model_key = "ndvi"
    THEN IF Len(a.shape) = 3 THEN MeanChannels(a)
         ELSE IF Len(a.shape) = 2
              THEN [shape |-> a.shape \o <<1>>, px |-> a.px]   \* np.expand_dims
              ELSE a
    ELSE IF model_key = "rgb"
    THEN IF Len(a.shape) = 2 THEN Stack(a, 3)
         ELSE IF a.shape[Len(a.shape)] = 4 THEN SliceChannels(a, 3)
         ELSE IF a.shape[Len(a.shape)] = 1 THEN Repeat(a, 3)
         ELSE a
    ELSE IF model_key = "rgb_nir"
    THEN IF Len(a.shape) = 2 THEN Stack(a, 4)
         ELSE IF a.shape[Len(a.shape)] = 3 THEN Concatenate(a, MeanChannels(a))
         ELSE IF a.shape[Len(a.shape)] = 1 THEN Repeat(a, 4)
         ELSE a
    ELSE a

\* img_array.max()
ArrayMax(a) ==
    CHOOSE m \in { a.px[i][c] : i \in Pixels, c \in 1..a.shape[3] } :
        \A i \in Pixels : \A c \in 1..a.shape[3] : a.px[i][c] <= m

\* Lines 113-114. The returned samples are held as x * Unit * 255: a divided
\* sample keeps its numerator, an undivided one is scaled.
Normalize(a) ==
    IF ArrayMax(a) > 1 * Unit
    THEN a
    ELSE [shape |-> a.shape,
          px |-> [i \in Pixels |-> [c \in 1..a.shape[3] |-> a.px[i][c] * 255]]]

\* 1.0 in the unit of the returned samples
One == Unit * 255

\* Lines 75-119 from the array of line 83 on (the resize of lines 79-80 has set
\* its height and width to the variant's input_shape).
preprocess_image(a, model_key) ==
    LET n == Normalize(ConvertChannels(a, model_key)) IN
    [shape |-> <<1>> \o n.shape, px |-> n.px]              \* np.expand_dims(axis=0)

-----------------------------------------------------------------------------
(* SpecClassifier: the classifier object after construction *)

InitClassifier ==
    /\ modelFile \in [Keys -> FileStates]
    /\ models = load_models(modelFile)
    /\ out = [op |-> "none"]
    /\ listing = <<>>
    /\ rejected = FALSE
    /\ fs = {}
    /\ rq = [op |-> "idle"]
    /\ resp = [op |-> "none"]
    /\ disk = {}
    /\ conc = <<>>

\* a caller invokes classifier.predict and holds the returned dict
Predict(img, model_key) ==
    LET res == predict(models, img, model_key) IN
    /\ out.op = "none"
    /\ out' = [op |-> "predict", img |-> img, model_key |-> model_key, res |-> res]
    /\ rejected' = (rejected \/ (~res.success /\ res.error = NotLoadedError(model_key)))
    /\ UNCHANGED <<modelFile, models, disk, conc, listing, fs, rq, resp>>

CompareAll(img) ==
    /\ out.op = "none"
    /\ out' = [op |-> "compare_all", img |-> img, res |-> compare_all(models, img)]
    /\ UNCHANGED <<modelFile, models, disk, conc, listing, rejected, fs, rq, resp>>

GetAvailableModels ==
    /\ listing' = get_available_models(models)
    /\ UNCHANGED <<modelFile, models, disk, conc, out, rejected, fs, rq, resp>>

\* the caller is done with the returned dict
Return ==
    /\ out.op # "none"
    /\ out' = [op |-> "none"]
    /\ UNCHANGED <<modelFile, models, disk, conc, listing, rejected, fs, rq, resp>>

Preprocess(a, model_key) ==
    /\ out.op = "none"
    /\ out' = [op |-> "preprocess_image", arr |-> a, model_key |-> model_key,
               res |-> preprocess_image(a, model_key)]
    /\ UNCHANGED <<modelFile, models, disk, conc, listing, rejected, fs, rq, resp>>

NextClassifier ==
    \/ out.op = "none" /\ \E img \in Images, k \in Keys : Predict(img, k)
    \/ out.op = "none" /\ \E img \in Images : CompareAll(img)
    \/ GetAvailableModels
    \/ Return

SpecClassifier == InitClassifier /\ [][NextClassifier]_vars

(* SpecPre: preprocess_image applied to every array of Arrays *)

InitPre ==
    /\ modelFile = [k \in Keys |-> "ok"]
    /\ models = load_models(modelFile)
    /\ out = [op |-> "none"]
    /\ listing = <<>>
    /\ rejected = FALSE
    /\ fs = {}
    /\ rq = [op |-> "idle"]
    /\ resp = [op |-> "none"]
    /\ disk = {}
    /\ conc = <<>>

NextPre ==
    \/ out.op = "none" /\ \E a \in Arrays, k \in Keys : Preprocess(a, k)
    \/ Return

SpecPre == InitPre /\ [][NextPre]_vars

-----------------------------------------------------------------------------
(* app.py: file names.  A file name is the sequence of its characters. *)

UpperCase ==
    << "A", "B", "C", "D", "E", "F", "G", "H", "I", "J", "K", "L", "M",
       "N", "O", "P", "Q", "R", "S", "T", "U", "V", "W", "X", "Y", "Z" >>

LowerCase ==
    << "a", "b", "c", "d", "e", "f", "g", "h", "i", "j", "k", "l", "m",
       "n", "o", "p", "q", "r", "s", "t", "u", "v", "w", "x", "y", "z" >>

Digits == << "0", "1", "2", "3", "4", "5", "6", "7", "8", "9" >>

\* str.lower, of one character
Lower(c) ==
    IF InSeq(c, UpperCase)
    THEN LowerCase[CHOOSE p \in DOMAIN UpperCase : UpperCase[p] = c]
    ELSE c

ALLOWED_EXTENSIONS == { <<"p", "n", "g">>, <<"j", "p", "g">>, <<"j", "p", "e", "g">>, <<"t", "i", "f">>, <<"t", "i", "f", "f">> }

UPLOAD_FOLDER == <<"u", "p", "l", "o", "a", "d", "s">>

\* filename.rsplit('.', 1)[1]: what follows the last dot
AfterLastDot(filename) ==
    LET d == CHOOSE p \in DOMAIN filename :
                 filename[p] = "." /\ \A q \in DOMAIN filename : filename[q] = "." => q <= p
    IN  SubSeq(filename, d + 1, Len(filename))

allowed_file(filename) ==
    /\ InSeq(".", filename)
    /\ [p \in DOMAIN AfterLastDot(filename) |-> Lower(AfterLastDot(filename)[p])]
          \in ALLOWED_EXTENSIONS

\* werkzeug.utils.secure_filename on an ASCII name: path separators become
\* spaces, runs of whitespace become one "_", characters outside
\* [A-Za-z0-9_.-] are dropped, leading and trailing "." and "_" are stripped
SafeChar(c) ==
    InSeq(c, UpperCase) \/ InSeq(c, LowerCase) \/ InSeq(c, Digits) \/ c \in {"_", ".", "-"}

RECURSIVE JoinWords(_, _, _)
JoinWords(cs, started, pending) ==
    IF cs = <<>> THEN <<>>
    ELSE IF Head(cs) \in {" ", "/"}
         THEN JoinWords(Tail(cs), started, started)
         ELSE (IF pending THEN <<"_">> ELSE <<>>) \o <<Head(cs)>>
              \o JoinWords(Tail(cs), TRUE, FALSE)

RECURSIVE LStrip(_)
LStrip(cs) ==
    IF cs # <<>> /\ Head(cs) \in {".", "_"} THEN LStrip(Tail(cs)) ELSE cs

RECURSIVE RStrip(_)
RStrip(cs) ==
    IF cs # <<>> /\ cs[Len(cs)] \in {".", "_"}
    THEN RStrip(SubSeq(cs, 1, Len(cs) - 1)) ELSE cs

secure_filename(filename) ==
    RStrip(LStrip(SelectSeq(JoinWords(filename, FALSE, FALSE), SafeChar)))

\* os.path.join(app.config['UPLOAD_FOLDER'], filename)
PathJoin(folder, filename) == folder \o <<"/">> \o filename

\* f"series_{i}_{file.filename}", i the 0-based position
SeriesName(i, filename) == <<"s", "e", "r", "i", "e", "s", "_">> \o <<Digits[i + 1]>> \o <<"_">> \o filename

-----------------------------------------------------------------------------
(* Bounds of the requests *)

\* the most images in one analyze-series request
MaxFiles == 3

\* the most date labels in one analyze-series request
MaxDates == 2

\* how many of CLASS_NAMES the images of the requests are classified as
NumAppLabels == 2

\* uploaded file names: none, no dot, a disallowed extension, and two allowed
\* ones that secure_filename maps to the same name
FileNames ==
    { <<>>, <<"p", "n", "g">>, <<"n", ".", "t", "x", "t">>,
      <<"a", ".", "P", "N", "G">>, <<".", ".", "/", "a", ".", "P", "N", "G">> }

SeriesFileNames == { <<>>, <<"n", ".", "t", "x", "t">>, <<"a", ".", "P", "N", "G">> }

\* the uploaded images of the requests: the variants agree on each of them
AppImages ==
    { [k \in Keys |-> o] :
        o \in { t \in TryOutcomes :
                  t.raised \/ t.predicted_class \in
                                { CLASS_NAMES[c] : c \in 1..NumAppLabels } } }

\* request.form.get('model', 'rgb')
ReqModels == Keys \cup {"sar"}

\* request.form.getlist('dates')
DateLabels == {"", "Jan"}

SeqsUpTo(S, n) == UNION { [1..m -> S] : m \in 0..n }

\* what the environment makes of file.save: written, raised before the file
\* was created, raised after it was created
SaveOutcomes == {"saved", "raised", "raised_partial"}

NoRequest == [op |-> "idle"]
NoResponse == [op |-> "none"]

Response(op, status, body, created) ==
    [op |-> op, status |-> status, body |-> body, created |-> created]

ErrorBody(msg) == [success |-> FALSE, error |-> msg]

-----------------------------------------------------------------------------
(* app.py: the handlers of /predict, /compare and /heatmap *)

\* generate_heatmap: the not-loaded guard, then a try block that fails where
\* preprocessing or inference fails; the two PNGs are not modelled
generate_heatmap(ms, img, model_key) ==
    IF ~InSeq(model_key, ms)
    THEN [success |-> FALSE, error |-> NotLoadedError(model_key)]
    ELSE LET o == img[model_key] IN
         IF o.raised
         THEN [success |-> FALSE, error |-> o.error]
         ELSE [success |-> TRUE, heatmap_overlay |-> "data:image/png;base64,",
               predicted_class |-> o.predicted_class,
               model_used |-> Config(model_key).name]

\* the classifier call of each handler (lines 85, 132, 178)
Classify(op, ms, img, model_key) ==
    IF op = "predict" THEN predict(ms, img, model_key)
    ELSE IF op = "compare" THEN compare_all(ms, img)
    ELSE generate_heatmap(ms, img, model_key)

\* Lines 54-76, 109-123, 147-169: the checks before the try block.  A request
\* that passes them enters the try block with nothing saved yet.
UploadStart(op, hasImage, filename, model) ==
    /\ rq = NoRequest /\ resp = NoResponse
    /\ IF ~hasImage
       THEN /\ resp' = Response(op, 400, ErrorBody("No image file provided"), {})
            /\ rq' = rq
       ELSE IF filename = <<>>
       THEN /\ resp' = Response(op, 400, ErrorBody("No file selected"), {})
            /\ rq' = rq
       ELSE IF ~allowed_file(filename)
       THEN /\ resp' = Response(op, 400, ErrorBody("Invalid file type"), {})
            /\ rq' = rq
       ELSE IF op # "compare" /\ model \notin Keys
       THEN /\ resp' = Response(op, 400, ErrorBody("Invalid model"), {})
            /\ rq' = rq
       ELSE /\ rq' = [op |-> op, pc |-> "save", filename |-> filename,
                      model |-> model, created |-> {}]
            /\ resp' = resp
    /\ UNCHANGED <<fs, modelFile, models, disk, conc, out, listing, rejected>>

\* Lines 80-82 (127-129, 173-175): secure_filename, os.path.join, file.save.
\* A save that raises lands in the except clause: response 500.
UploadSave(outcome) ==
    /\ rq.op \in {"predict", "compare", "heatmap"} /\ rq.pc = "save"
    /\ LET filepath == PathJoin(UPLOAD_FOLDER, secure_filename(rq.filename)) IN
       IF outcome = "saved"
       THEN /\ fs' = fs \cup {filepath}
            /\ rq' = [op |-> rq.op, pc |-> "classify", filename |-> rq.filename,
                      model |-> rq.model, created |-> {filepath},
                      filepath |-> filepath]
            /\ resp' = resp
       ELSE /\ fs' = IF outcome = "raised_partial" THEN fs \cup {filepath} ELSE fs
            /\ rq' = NoRequest
            /\ resp' = Response(rq.op, 500, ErrorBody("save failed"),
                                IF outcome = "raised_partial" THEN {filepath} ELSE {})
    /\ UNCHANGED <<modelFile, models, disk, conc, out, listing, rejected>>

\* Lines 85, 132, 178: the classifier call; it returns a dict, never raises.
UploadClassify(img) ==
    /\ rq.op \in {"predict", "compare", "heatmap"} /\ rq.pc = "classify"
    /\ rq' = [op |-> rq.op, pc |-> "remove", filename |-> rq.filename,
              model |-> rq.model, created |-> rq.created, filepath |-> rq.filepath,
              result |-> Classify(rq.op, models, img, rq.model)]
    /\ UNCHANGED <<fs, resp, modelFile, models, disk, conc, out, listing, rejected>>

\* Lines 88-93 (135-140, 181-186): os.remove, then the result as the response;
\* os.remove raises if the file is gone, and may raise though it is there.
UploadFinish(removeRaises) ==
    /\ rq.op \in {"predict", "compare", "heatmap"} /\ rq.pc = "remove"
    /\ IF rq.filepath \in fs /\ ~removeRaises
       THEN /\ fs' = fs \ {rq.filepath}
            /\ resp' = Response(rq.op, 200, rq.result, rq.created)
       ELSE /\ fs' = fs
            /\ resp' = Response(rq.op, 500, ErrorBody("remove failed"), rq.created)
    /\ rq' = NoRequest
    /\ UNCHANGED <<modelFile, models, disk, conc, out, listing, rejected>>

\* the client has read the response
Receive ==
    /\ resp # NoResponse
    /\ resp' = NoResponse
    /\ UNCHANGED <<fs, rq, modelFile, models, disk, conc, out, listing, rejected>>

-----------------------------------------------------------------------------
(* app.py: the handler of /analyze-series *)

SeriesResponse(r, status, body, created) ==
    [op |-> "analyze_series", status |-> status, body |-> body, created |-> created,
     files |-> r.files, dates |-> r.dates, model |-> r.model]

\* mutant: the label is looked up at the entry's position among the results
DateLabelAt(dates, i, n) ==
    IF n < Len(dates) /\ dates[n + 1] # "" THEN dates[n + 1] ELSE "T" \o ToString(n + 1)

\* line 228, i the 0-based position of the image among the submitted ones and
\* n the number of entries before it
DateLabel(dates, i, n) ==
    IF i < Len(dates) /\ dates[i + 1] # "" THEN dates[i + 1] ELSE "T" \o ToString(i + 1)

\* mutant: a pair is a change when anything of the two entries differs
IsChange_any_difference(prev, curr) ==
    prev.predicted_class # curr.predicted_class \/ prev.confidence # curr.confidence

\* line 250
IsChange(prev, curr) == prev.predicted_class # curr.predicted_class

\* lines 246-258; p is the 1-based position of curr
RECURSIVE ChangesFrom(_, _)
ChangesFrom(results, p) ==
    IF p > Len(results) THEN <<>>
    ELSE LET prev == results[p - 1]
             curr == results[p]
         IN  (IF IsChange(prev, curr)
              THEN << [from_date |-> prev.date, to_date |-> curr.date,
                       from_class |-> prev.predicted_class,
                       to_class |-> curr.predicted_class,
                       from_confidence |-> prev.confidence,
                       to_confidence |-> curr.confidence] >>
              ELSE <<>>) \o ChangesFrom(results, p + 1)

\* lines 261-265
Timeline(results) ==
    [dates |-> [p \in DOMAIN results |-> results[p].date],
     classes |-> [p \in DOMAIN results |-> results[p].predicted_class],
     confidences |-> [p \in DOMAIN results |-> results[p].confidence]]

\* mutant: one processed image is enough
MinResults_one == 2 - 1

\* line 242: len(results) < 2
MinResults == 2

\* lines 242-275: the response once the files are cleaned up
SeriesBody(results, model) ==
    IF Len(results) < MinResults
    THEN [status |-> 400, body |-> ErrorBody("Could not process enough images")]
    ELSE LET changes == ChangesFrom(results, 2) IN
         [status |-> 200,
          body |-> [success |-> TRUE, results |-> results, changes |-> changes,
                    timeline |-> Timeline(results), total_images |-> Len(results),
                    change_count |-> Len(changes),
                    model_used |-> Config(model).name]]

\* lines 193-212: the checks, then the try block opens with empty lists
SeriesStart(files, model, dates) ==
    /\ rq = NoRequest /\ resp = NoResponse
    /\ LET r == [files |-> files, dates |-> dates, model |-> model] IN
       IF files = <<>>                          \* 'images' not in request.files
       THEN /\ resp' = SeriesResponse(r, 400, ErrorBody("No images provided"), {})
            /\ rq' = rq
       ELSE IF Len(files) < 2
       THEN /\ resp' = SeriesResponse(r, 400,
                          ErrorBody("At least 2 images required for time-series analysis"), {})
            /\ rq' = rq
       ELSE IF model \notin Keys
       THEN /\ resp' = SeriesResponse(r, 400, ErrorBody("Invalid model"), {})
            /\ rq' = rq
       ELSE /\ rq' = [op |-> "analyze_series", pc |-> "loop", files |-> files,
                      model |-> model, dates |-> dates, i |-> 0,
                      results |-> <<>>, filepaths |-> <<>>, created |-> {}]
            /\ resp' = resp
    /\ UNCHANGED <<fs, modelFile, models, disk, conc, out, listing, rejected>>

\* lines 215-235: one iteration of the loop over the submitted files
SeriesStep(outcome, img) ==
    /\ rq.op = "analyze_series" /\ rq.pc = "loop" /\ rq.i < Len(rq.files)
    /\ LET filename == rq.files[rq.i + 1]
           filepath == PathJoin(UPLOAD_FOLDER, secure_filename(SeriesName(rq.i, filename)))
           result == predict(models, img, rq.model)
       IN  IF filename = <<>> \/ ~allowed_file(filename)
           THEN /\ rq' = [rq EXCEPT !.i = @ + 1]                       \* continue
                /\ UNCHANGED <<fs, resp>>
           ELSE IF outcome # "saved"
           THEN /\ fs' = IF outcome = "raised_partial" THEN fs \cup {filepath} ELSE fs
                /\ rq' = NoRequest
                /\ resp' = SeriesResponse(rq, 500, ErrorBody("save failed"),
                              IF outcome = "raised_partial"
                              THEN rq.created \cup {filepath} ELSE rq.created)
           ELSE /\ fs' = fs \cup {filepath}
                /\ rq' = [rq EXCEPT
                            !.i = @ + 1,
                            !.filepaths = Append(@, filepath),
                            !.created = @ \cup {filepath},
                            !.results =
                               IF result.success
                               THEN Append(@, [index |-> rq.i,
                                               date |-> DateLabel(rq.dates, rq.i, Len(@)),
                                               predicted_class |-> result.predicted_class,
                                               confidence |-> result.confidence])
                               ELSE @]
                /\ resp' = resp
    /\ UNCHANGED <<modelFile, models, disk, conc, out, listing, rejected>>

\* Lines 238-278 once the loop is over: the files are removed in order, then
\* the response is built.  failAt = 0: no os.remove raises; failAt = k: the
\* k-th one does, and the except clause answers 500.
SeriesFinish(failAt) ==
    /\ rq.op = "analyze_series" /\ rq.pc = "loop" /\ rq.i = Len(rq.files)
    /\ failAt <= Len(rq.filepaths)
    /\ IF failAt = 0
       THEN LET b == SeriesBody(rq.results, rq.model) IN
            /\ fs' = fs \ { rq.filepaths[p] : p \in DOMAIN rq.filepaths }
            /\ resp' = SeriesResponse(rq, b.status, b.body, rq.created)
       ELSE /\ fs' = fs \ { rq.filepaths[p] : p \in 1..(failAt - 1) }
            /\ resp' = SeriesResponse(rq, 500, ErrorBody("remove failed"), rq.created)
    /\ rq' = NoRequest
    /\ UNCHANGED <<modelFile, models, disk, conc, out, listing, rejected>>

-----------------------------------------------------------------------------
(* Spec: the application after startup, one request at a time *)

\* the startup the requests are run against: the rgb model loaded, the
\* rgb_nir file absent and the ndvi file corrupt
AppModelFiles ==
    { [k \in Keys |-> IF k = "rgb" THEN "ok" ELSE IF k = "ndvi" THEN "corrupt" ELSE "absent"] }

Init ==
    /\ modelFile \in AppModelFiles
    /\ models = load_models(modelFile)
    /\ out = [op |-> "none"]
    /\ listing = <<>>
    /\ rejected = FALSE
    /\ fs = {}
    /\ rq = NoRequest
    /\ resp = NoResponse
    /\ disk = {}
    /\ conc = <<>>

Idle == rq = NoRequest /\ resp = NoResponse

Next ==
    \/ Idle /\ \E op \in {"predict", "compare", "heatmap"}, filename \in FileNames,
                  model \in ReqModels : UploadStart(op, TRUE, filename, model)
    \/ Idle /\ \E op \in {"predict", "compare", "heatmap"} :
                  UploadStart(op, FALSE, <<>>, "rgb")
    \/ \E outcome \in SaveOutcomes : UploadSave(outcome)
    \/ \E img \in AppImages : UploadClassify(img)
    \/ \E removeRaises \in BOOLEAN : UploadFinish(removeRaises)
    \/ Idle /\ \E files \in SeqsUpTo(SeriesFileNames, MaxFiles), model \in ReqModels,
                  dates \in SeqsUpTo(DateLabels, MaxDates) :
                  SeriesStart(files, model, dates)
    \/ \E outcome \in SaveOutcomes, img \in AppImages :
                  SeriesStep(outcome, img)
    \/ \E failAt \in 0..MaxFiles : SeriesFinish(failAt)
    \/ Receive

Spec == Init /\ [][Next]_vars

-----------------------------------------------------------------------------
(* SpecConc: app.run (line 286) starts the development server, which       *)
(* handles each request on a thread of its own.  The handlers of /predict, *)
(* /compare and /heatmap run as in Spec, one step of one thread at a time; *)
(* the upload folder is the one directory the threads all write to.        *)

\* the requests in flight at once
NumThreads == 2

Threads == 1..NumThreads

\* the uploads of the concurrent requests: the image that fails to open, and
\* for each label the image classified as that label with the top confidence
ConcImages ==
    { img \in AppImages :
        \A k \in Keys : img[k].raised \/ \A c \in Confs : img[k].confidence >= c }

\* request.form.get('model', 'rgb'): a loaded variant, a variant that is not
\* loaded, and a key outside MODEL_CONFIG
ConcModels == {"rgb", "ndvi", "sar"}

\* Image.open(image_path) on a path with no file: FileNotFoundError, raised
\* inside the try block of every variant
MissingFile ==
    [k \in Keys |-> [raised |-> TRUE, error |-> "No such file or directory"]]

IdleThread == [pc |-> "idle"]

\* a return before the try block
Rejected(op, msg) ==
    [pc |-> "done", op |-> op, resp |-> Response(op, 400, ErrorBody(msg), {})]

OnDisk(filepath) == \E f \in disk : f.path = filepath

\* open(filepath).read(), for a file that is there
ReadFile(filepath) == (CHOOSE f \in disk : f.path = filepath).content

\* Lines 54-76, 109-123, 147-169: the checks before the try block.  img is
\* the content of the uploaded file.
ConcStart(t, op, hasImage, filename, model, img) ==
    /\ conc[t].pc = "idle"
    /\ conc' = [conc EXCEPT ![t] =
          IF ~hasImage THEN Rejected(op, "No image file provided")
          ELSE IF filename = <<>> THEN Rejected(op, "No file selected")
          ELSE IF ~allowed_file(filename) THEN Rejected(op, "Invalid file type")
          ELSE IF op # "compare" /\ model \notin Keys THEN Rejected(op, "Invalid model")
          ELSE [pc |-> "save", op |-> op, model |-> model,
                file |-> [filename |-> filename, content |-> img]]]
    /\ UNCHANGED <<disk, modelFile, models, out, listing, rejected, fs, rq, resp>>

\* Lines 80-82 (127-129, 173-175): secure_filename, os.path.join, file.save.
\* file.save opens filepath for writing: a file already there is replaced.
ConcSave(t) ==
    /\ conc[t].pc = "save"
    /\ LET filename == secure_filename(conc[t].file.filename)
           filepath == PathJoin(UPLOAD_FOLDER, filename)
       IN  /\ disk' = { f \in disk : f.path # filepath }
                        \cup { [path |-> filepath, content |-> conc[t].file.content] }
           /\ conc' = [conc EXCEPT ![t] =
                 [pc |-> "classify", op |-> conc[t].op, model |-> conc[t].model,
                  img |-> conc[t].file.content, filepath |-> filepath]]
    /\ UNCHANGED <<modelFile, models, out, listing, rejected, fs, rq, resp>>

\* Lines 85, 132, 178: the classifier call opens filepath and classifies what
\* it finds there; `read` records what that was.
ConcClassify(t) ==
    /\ conc[t].pc = "classify"
    /\ LET c == conc[t]
           read == IF OnDisk(c.filepath) THEN ReadFile(c.filepath) ELSE MissingFile
       IN  conc' = [conc EXCEPT ![t] =
              [pc |-> "remove", op |-> c.op, model |-> c.model, img |-> c.img,
               filepath |-> c.filepath, read |-> read,
               result |-> Classify(c.op, models, read, c.model)]]
    /\ UNCHANGED <<disk, modelFile, models, out, listing, rejected, fs, rq, resp>>

\* Lines 88-93 (135-140, 181-186): os.remove, then the result as the response;
\* os.remove raises FileNotFoundError if the file is gone: response 500.
ConcFinish(t) ==
    /\ conc[t].pc = "remove"
    /\ LET c == conc[t]
           there == OnDisk(c.filepath)
       IN  /\ disk' = { f \in disk : f.path # c.filepath }
           /\ conc' = [conc EXCEPT ![t] =
                 [pc |-> "done", op |-> c.op, model |-> c.model, img |-> c.img,
                  filepath |-> c.filepath, read |-> c.read, removed |-> there,
                  resp |-> IF there
                           THEN Response(c.op, 200, c.result, {c.filepath})
                           ELSE Response(c.op, 500,
                                         ErrorBody("No such file or directory"),
                                         {c.filepath})]]
    /\ UNCHANGED <<modelFile, models, out, listing, rejected, fs, rq, resp>>

\* the client of thread t has read the response
ConcReceive(t) ==
    /\ conc[t].pc = "done"
    /\ conc' = [conc EXCEPT ![t] = IdleThread]
    /\ UNCHANGED <<disk, modelFile, models, out, listing, rejected, fs, rq, resp>>

InitConc ==
    /\ modelFile \in AppModelFiles
    /\ models = load_models(modelFile)
    /\ out = [op |-> "none"]
    /\ listing = <<>>
    /\ rejected = FALSE
    /\ fs = {}
    /\ rq = NoRequest
    /\ resp = NoResponse
    /\ disk = {}
    /\ conc = [t \in Threads |-> IdleThread]

NextConc ==
    \/ \E t \in Threads : conc[t].pc = "idle" /\
          \E op \in {"predict", "heatmap"}, filename \in FileNames,
             model \in ConcModels, img \in ConcImages :
                ConcStart(t, op, TRUE, filename, model, img)
    \/ \E t \in Threads : conc[t].pc = "idle" /\
          \E filename \in FileNames, img \in ConcImages :
                ConcStart(t, "compare", TRUE, filename, "rgb", img)
    \/ \E t \in Threads : conc[t].pc = "idle" /\
          \E op \in {"predict", "compare", "heatmap"} :
                ConcStart(t, op, FALSE, <<>>, "rgb", MissingFile)
    \/ \E t \in Threads : ConcSave(t)
    \/ \E t \in Threads : ConcClassify(t)
    \/ \E t \in Threads : ConcFinish(t)
    \/ \E t \in Threads : ConcReceive(t)

SpecConc == InitConc /\ [][NextConc]_vars

-----------------------------------------------------------------------------
(* Properties of the classifier, stated over the arguments and the return  *)
(* value of the last call                                                  *)

\* registry positions whose variant is loaded and predicts on the image of out
Succeeded ==
    { p \in DOMAIN MODEL_CONFIG :
        /\ InSeq(MODEL_CONFIG[p].key, models)
        /\ ~out.img[MODEL_CONFIG[p].key].raised }

LabelAt(p) == out.img[MODEL_CONFIG[p].key].predicted_class

Votes(l) == Cardinality({ p \in Succeeded : LabelAt(p) = l })

FirstVote(l) ==
    CHOOSE p \in Succeeded :
        LabelAt(p) = l /\ \A q \in Succeeded : LabelAt(q) = l => p <= q

\* C1: when some variant predicts, the consensus of compare_all is a label with
\* the largest number of votes among the successful predictions, and among the
\* labels tied for that number it is the one met first in registry order.
C1_ConsensusFirstPlurality ==
    (out.op = "compare_all" /\ Succeeded # {}) =>
        LET c == out.res.consensus IN
        /\ \E p \in Succeeded : LabelAt(p) = c
        /\ \A p \in Succeeded :
              LET l == LabelAt(p) IN
              /\ Votes(l) <= Votes(c)
              /\ (Votes(l) = Votes(c) /\ l # c) => FirstVote(c) < FirstVote(l)

\* a comparison where two labels tie and the variant that voted for the
\* consensus is not the first loaded one's only rival: all three loaded
C1_Witness ==
    /\ out.op = "compare_all"
    /\ Cardinality(Succeeded) = 3
    /\ \E p, q \in Succeeded :
          LabelAt(p) # LabelAt(q) /\ Votes(LabelAt(p)) = Votes(LabelAt(q))
    /\ out.res.consensus = LabelAt(1)

\* C2: the agreement of compare_all is the share of the successful predictions
\* equal to the consensus, in percent rounded to one decimal (here in tenths);
\* with no successful prediction the consensus is None and the agreement 0;
\* with all successful predictions equal the agreement is 100.0.
C2_Agreement ==
    out.op = "compare_all" =>
        LET n == Cardinality(Succeeded)
            m == Votes(out.res.consensus)
            a == out.res.agreement
        IN  /\ n = 0 => (out.res.consensus = None /\ a = 0)
            /\ n > 0 =>
                  /\ 2 * a * n - 2000 * m <= n
                  /\ 2000 * m - 2 * a * n <= n
                  /\ (\A p, q \in Succeeded : LabelAt(p) = LabelAt(q)) => a = 1000

\* two of three successful predictions agree: 66.7
C2_Witness ==
    /\ out.op = "compare_all"
    /\ Cardinality(Succeeded) = 3
    /\ Votes(out.res.consensus) = 2
    /\ out.res.agreement = 667

NotLoadedRejection(res, k) == ~res.success /\ res.error = NotLoadedError(k)

\* the image of out is served by variant k: the result is what inference gave
Served(res, k) ==
    IF out.img[k].raised
    THEN ~res.success /\ res.error = out.img[k].error
    ELSE res.success /\ res.predicted_class = out.img[k].predicted_class

C5_State ==
    /\ listing # <<>> =>
          \A p \in DOMAIN MODEL_CONFIG :
              /\ listing[p].key = MODEL_CONFIG[p].key
              /\ listing[p].loaded <=> (modelFile[listing[p].key] = "ok")
    /\ (listing # <<>> /\ out.op = "predict") =>
          \A p \in DOMAIN listing :
              listing[p].key = out.model_key =>
                  /\ listing[p].loaded <=> ~NotLoadedRejection(out.res, out.model_key)
                  /\ listing[p].loaded => Served(out.res, out.model_key)
    /\ (rejected /\ out.op = "predict" /\ modelFile[out.model_key] = "ok") =>
          Served(out.res, out.model_key)

C5_Step ==
    /\ models' = models
    /\ (out'.op = "predict" /\ out' # out /\ modelFile[out'.model_key] # "ok") =>
          NotLoadedRejection(out'.res, out'.model_key)

\* C5: get_available_models reports loaded exactly for the variants whose file
\* loaded at startup, which are exactly the variants predict serves; a predict
\* on another variant returns the not-loaded error result, leaves the loaded
\* models unchanged, and later predicts on loaded variants are still served.
C5_LoadedMatchesServed == [](C5_State) /\ [][C5_Step]_vars

\* after a rejection, a loaded variant predicts, with a corrupt file and an
\* absent file listed as not loaded
C5_Witness ==
    /\ rejected
    /\ out.op = "predict" /\ out.res.success
    /\ listing # <<>>
    /\ \E k \in Keys : modelFile[k] = "corrupt"
    /\ \E k \in Keys : modelFile[k] = "absent"

EntryOf(k) ==
    { p \in DOMAIN out.res.models : out.res.models[p].key = k }

EntryMatches(k) ==
    \A p \in EntryOf(k) :
        LET e == out.res.models[p] IN
        IF out.img[k].raised
        THEN "error" \in DOMAIN e /\ "predicted_class" \notin DOMAIN e
             /\ e.error = out.img[k].error
        ELSE "predicted_class" \in DOMAIN e /\ "error" \notin DOMAIN e
             /\ e.predicted_class = out.img[k].predicted_class

\* C8 as claimed: compare_all returns an entry for every variant of the
\* registry, a prediction for each that succeeded and an error string for each
\* that is not loaded or failed.
C8_EntryForEveryVariant ==
    out.op = "compare_all" =>
        \A k \in Keys :
            /\ Cardinality(EntryOf(k)) = 1
            /\ \A p \in EntryOf(k) :
                  IF InSeq(k, models) /\ ~out.img[k].raised
                  THEN "predicted_class" \in DOMAIN out.res.models[p]
                  ELSE "error" \in DOMAIN out.res.models[p]

\* C8 as amended: compare_all returns exactly one entry for every loaded
\* variant, a prediction if it succeeded and its error string if it failed,
\* and no entry for a variant that is not loaded; the response is a success
\* whatever the variants did.
C8_EntryForEveryLoadedVariant ==
    out.op = "compare_all" =>
        /\ out.res.success
        /\ \A k \in Keys :
              /\ Cardinality(EntryOf(k)) = (IF InSeq(k, models) THEN 1 ELSE 0)
              /\ EntryMatches(k)

\* one variant is not loaded, one fails on the image, one predicts
C8_Witness ==
    /\ out.op = "compare_all"
    /\ \E k \in Keys : ~InSeq(k, models)
    /\ \E k \in Keys : InSeq(k, models) /\ out.img[k].raised
    /\ \E k \in Keys : InSeq(k, models) /\ ~out.img[k].raised

\* C6 as claimed: preprocess_image returns a tensor of shape [1, 64, 64, C]
\* with C the variant's channel count, whatever the channel count of the source
\* (a call that raises returns no tensor).
C6_TensorHasVariantShape ==
    out.op = "preprocess_image" =>
        out.res.shape = <<1>> \o Config(out.model_key).input_shape

\* C7 as claimed: every sample of the tensor preprocess_image returns lies in
\* [0, 1].
C7_TensorInUnitInterval ==
    out.op = "preprocess_image" =>
        \A i \in Pixels : \A c \in DOMAIN out.res.px[i] :
            0 <= out.res.px[i][c] /\ out.res.px[i][c] <= One

-----------------------------------------------------------------------------
(* Properties of the handlers, stated over the response just returned *)

SeriesOk == resp.op = "analyze_series" /\ resp.status = 200

\* positions (1-based) of the entries whose label differs from the entry before
ChangedAt ==
    { p \in 2..Len(resp.body.results) :
        resp.body.results[p - 1].predicted_class # resp.body.results[p].predicted_class }

\* C3: the changes of analyze_series are, in entry order, exactly the adjacent
\* pairs of entries whose predicted labels differ, each with the dates, labels
\* and confidences of its two entries; change_count is their number.
C3_ChangesAreLabelChanges ==
    SeriesOk =>
        LET R == resp.body.results
            ch == resp.body.changes
        IN  /\ Len(ch) = Cardinality(ChangedAt)
            /\ resp.body.change_count = Cardinality(ChangedAt)
            /\ \A p \in ChangedAt :
                  LET j == Cardinality({ q \in ChangedAt : q <= p }) IN
                  ch[j] = [from_date |-> R[p - 1].date, to_date |-> R[p].date,
                           from_class |-> R[p - 1].predicted_class,
                           to_class |-> R[p].predicted_class,
                           from_confidence |-> R[p - 1].confidence,
                           to_confidence |-> R[p].confidence]
            /\ (Len(R) = 2 /\ R[1].predicted_class # R[2].predicted_class) =>
                  /\ Len(ch) = 1
                  /\ ch[1].from_date = R[1].date /\ ch[1].to_date = R[2].date

\* three entries: the first two differ in confidence only, the last two in label
C3_Witness ==
    /\ SeriesOk
    /\ Len(resp.body.results) = 3
    /\ resp.body.results[1].predicted_class = resp.body.results[2].predicted_class
    /\ resp.body.results[1].confidence # resp.body.results[2].confidence
    /\ resp.body.results[2].predicted_class # resp.body.results[3].predicted_class
    /\ Len(resp.body.changes) = 1

\* the submitted names that pass the filter of line 216: non-empty, with an
\* extension of ALLOWED_EXTENSIONS
ValidSubmitted ==
    { p \in DOMAIN resp.files :
        resp.files[p] \in { <<"a", ".", "P", "N", "G">> } }

NoSeriesData ==
    /\ ~resp.body.success
    /\ DOMAIN resp.body \cap {"results", "changes", "timeline"} = {}

\* C4 as claimed: when fewer than 2 of the submitted images pass the filter
\* the call fails with the bad-request error and returns no entries, changes
\* or timeline; a success response has at least 2 entries.
C4_TooFewValidIsBadRequest ==
    resp.op = "analyze_series" =>
        /\ Cardinality(ValidSubmitted) < 2 => (resp.status = 400 /\ NoSeriesData)
        /\ resp.status = 200 => Len(resp.body.results) >= 2

\* C4 as amended: when fewer than 2 of the submitted images pass the filter
\* the call fails, with the bad-request error or, when saving or removing the
\* temporary file raised, with the 500 error of the except clause, and returns
\* no entries, changes or timeline; a success response has at least 2 entries.
C4_TooFewValidFails ==
    resp.op = "analyze_series" =>
        /\ Cardinality(ValidSubmitted) < 2 =>
              /\ resp.status \in {400, 500}
              /\ NoSeriesData
              /\ resp.status = 500 => resp.body.error \in {"save failed", "remove failed"}
        /\ resp.status = 200 => Len(resp.body.results) >= 2

\* one valid image among invalid ones was saved, classified and removed, and
\* the request was refused
C4_Witness ==
    /\ resp.op = "analyze_series"
    /\ Cardinality(ValidSubmitted) = 1
    /\ Len(resp.files) = 3
    /\ resp.created # {}
    /\ resp.status = 400
    /\ resp.body.error = "Could not process enough images"

\* the label line 228 gives the image at 0-based position i
ExpectedDate(i) ==
    IF i + 1 \in DOMAIN resp.dates /\ resp.dates[i + 1] # ""
    THEN resp.dates[i + 1]
    ELSE "T" \o ToString(i + 1)

\* C9: the entries of analyze_series are in input order, each with the
\* caller's date label at its image's position if there is a non-empty one
\* and "T{position+1}" otherwise; the timeline's sequences repeat the entries'
\* dates, classes and confidences.
C9_EntriesInOrderWithDates ==
    SeriesOk =>
        LET R == resp.body.results
            tl == resp.body.timeline
        IN  /\ \A p \in DOMAIN R :
                  /\ R[p].index + 1 \in ValidSubmitted
                  /\ R[p].date = ExpectedDate(R[p].index)
                  /\ p > 1 => R[p - 1].index < R[p].index
            /\ Len(tl.dates) = Len(R) /\ Len(tl.classes) = Len(R)
            /\ Len(tl.confidences) = Len(R)
            /\ \A p \in DOMAIN R :
                  /\ tl.dates[p] = R[p].date
                  /\ tl.classes[p] = R[p].predicted_class
                  /\ tl.confidences[p] = R[p].confidence

\* the first image was skipped, the date list is shorter than the image list:
\* one entry carries the caller's label, one a synthesized label
C9_Witness ==
    /\ SeriesOk
    /\ Len(resp.dates) < Len(resp.files)
    /\ resp.body.results[1].index = 1
    /\ resp.body.results[1].date = "Jan"
    /\ resp.body.results[2].date = "T3"

\* C10 as claimed: when a handler returns its response, whatever the path,
\* every temporary file the request created has been deleted.
C10_TempFilesDeleted ==
    resp # NoResponse => resp.created \cap fs = {}

-----------------------------------------------------------------------------
(* Properties of concurrent requests, stated over each thread's request *)

\* a request of thread t passed the checks and has returned its response
Finished(t) == conc[t].pc = "done" /\ conc[t].resp.status # 400

\* the response of the same request on a server that handles nothing else
Alone(c) ==
    Response(c.op, 200, Classify(c.op, models, c.img, c.model), {c.filepath})

\* C11 as claimed: whatever the interleaving of two requests in flight, the
\* classifier of each reads the content that request saved, the file is
\* still there when the request removes it, and the request returns the
\* response it returns when run alone.
C11_ConcurrentAsAlone ==
    \A t \in Threads :
        /\ conc[t].pc = "remove" => conc[t].read = conc[t].img
        /\ Finished(t) =>
              /\ conc[t].read = conc[t].img
              /\ conc[t].removed
              /\ conc[t].resp = Alone(conc[t])

====
